---- MODULE Spec2Model ----
(***************************************************************************)
(* blockhost-provisioner-libvirt: the provisioning saga of                 *)
(* scripts/vm-create.py (main, fail, _cleanup_partial) run by concurrent   *)
(* CLI invocations against one store, one filesystem and one hypervisor.   *)
(***************************************************************************)
EXTENDS Integers, Sequences, FiniteSets, TLC

\* ---------------------------------------------------------------- bounds
MaxRuns == 2   \* create_vm invocations started in one behaviour
MaxIp == 2     \* size of the IPv4 pool
MaxIp6 == 1    \* size of the IPv6 pool
MaxFaults == 2 \* failing outcomes of the environment in one behaviour

Procs == {"p1", "p2"}          \* concurrently running CLI processes
Names == {"web01", "web02"}    \* VM names given on the command line
Ips == 1..MaxIp
Ip6s == 1..MaxIp6
TokenIds == 0..(MaxRuns - 1)   \* reserve_nft_token_id counts up from 0

\* allocated.get("nft_token_id") of a ledger without the key
NoToken == -1

\* outcomes of the external collaborators, chosen by the environment
StoreOutcomes == {"ok", "raise"}
FsOutcomes == {"ok", "oserror"}
GatewayOutcomes == {"ok", "notok", "raise"}

VARIABLES
    pc,         \* pc[p]: position of process p in main / _cleanup_partial
    id,         \* id[p]: number of the invocation process p is running
    args,       \* args[p]: [name, apply] parsed from the command line
    broker,     \* the host has a broker allocation (load_broker_allocation)
    allocated,  \* allocated[p]: the ledger dict of main
    out,        \* out[p]: JSON objects printed on stdout, in order
    exit,       \* exit[p]: exit status, -1 while running
    calls,      \* calls[p]: gateway calls and compensating operations issued
    msg,        \* msg[p]: the message fail() was called with, "" before
    nruns,      \* invocations started so far
    usedIp,     \* store: IPv4 addresses allocated
    usedIp6,    \* store: IPv6 addresses allocated
    nft,        \* store: token id -> "free" | "reserved" | "failed"
    records,    \* store: name -> VM record
    dirs,       \* filesystem: mode of the three base directories, 0 = absent
    template,   \* filesystem: mode of TEMPLATE_IMAGE, 0 = absent
    disk,       \* filesystem: name -> writer of <name>.qcow2, 0 = absent
    ciDir,      \* filesystem: name -> CLOUD_INIT_DIR/<name> and its files
    xml,        \* filesystem: name -> writer of <name>.xml, 0 = absent
    domain,     \* hypervisor: name -> [defined, running]
    routes,     \* hypervisor host: IPv6 routes added
    faults,     \* failing outcomes the environment has produced so far
    gwReq,      \* root agent: the request handed to a handler of ACTIONS
    gwRan,      \* root agent: the commands the handler gave to run()
    gwResult,   \* root agent: what the handler returned or raised
    gcRun,      \* the last vm-gc invocation: its arguments, output, exit status
    resumeRun   \* the last vm-resume invocation, likewise

procVars == <<pc, id, args, allocated, out, exit, calls, msg, nruns>>
storeVars == <<usedIp, usedIp6, nft, records>>
fsVars == <<dirs, template, disk, ciDir, xml>>
hvVars == <<domain, routes>>
gwVars == <<gwReq, gwRan, gwResult>>
opVars == <<gcRun, resumeRun>>
vars == <<pc, id, args, allocated, out, exit, calls, msg, nruns, broker,
          usedIp, usedIp6, nft, records, dirs, template, disk, ciDir, xml,
          domain, routes, faults, gwReq, gwRan, gwResult, gcRun, resumeRun>>

\* ------------------------------------------------------------- helpers
Min(S) == CHOOSE x \in S : \A y \in S : x <= y

\* st.st_mode | 0o005 on a mode given as a number (low octal digit or'ed with 5)
OrOthersRX(m) ==
    LET o == m % 8
    IN  (m - o) + (IF o \in {2, 3, 6, 7} THEN 7 ELSE 5)

\* allocated = {"name": args.name}
NewLedger(n) ==
    [name |-> n, db |-> FALSE, ip |-> 0, ipv6 |-> 0, nft_token_id |-> NoToken,
     cloud_init_dir |-> FALSE, disk_path |-> FALSE, domain_defined |-> FALSE]

\* A VM record: its status, addresses, and expiry in days from now (negative:
\* that many days ago).
NoRecord == [status |-> "none", ip |-> 0, ipv6 |-> 0, expiry |-> 0]
\* --expiry-days, default=30
ExpiryDays == 30
NoCiDir == [exists |-> FALSE, user_data |-> 0, iso |-> 0]
NoDomain == [defined |-> 0, running |-> FALSE]

\* {"status": "error", "error": msg}
ErrorJson(m) ==
    [status |-> "error", error |-> m, ip |-> 0, ipv6 |-> 0, vmid |-> "",
     nft_token_id |-> NoToken]
\* {"status": "ok", "vm_name", "ip", "ipv6", "vmid", "nft_token_id", "username"}
OkJson(p) ==
    [status |-> "ok", error |-> "", ip |-> allocated[p].ip,
     ipv6 |-> allocated[p].ipv6, vmid |-> args[p].name,
     nft_token_id |-> allocated[p].nft_token_id]

NoArgs == [name |-> "", apply |-> FALSE]

\* nothing asked of the root agent yet; no gc or resume invocation yet
NoRequest == [action |-> "", params |-> <<>>]
NoResult == [kind |-> "none"]
NoRun == [exit |-> -1]

\* ---------------------------------------------------------------- Init
\* Hosts an invocation can find: no template built yet, template built but
\* the VM directories never made, everything made by root under a restrictive
\* umask, and a host that has provisioned before.
NoTemplateHost == [template |-> 0, templates |-> 448, vms |-> 0, cloudinit |-> 0]
NoDirsHost == [template |-> 384, templates |-> 448, vms |-> 0, cloudinit |-> 0]
RestrictiveHost == [template |-> 384, templates |-> 448, vms |-> 448, cloudinit |-> 448]
ReadyHost == [template |-> 420, templates |-> 493, vms |-> 493, cloudinit |-> 493]

\* What the store and the host hold for web01 beforehand: nothing; a running
\* VM; a record of a VM another provisioner of the same store created; the
\* record of a destroyed VM; an overlay file left behind without a record;
\* a store whose IPv4 pool other provisioners have used up.
Worlds ==
    { <<"fresh", NoTemplateHost, FALSE>>, <<"fresh", NoDirsHost, FALSE>>,
      <<"fresh", ReadyHost, TRUE>>, <<"active", ReadyHost, TRUE>>,
      <<"foreign", ReadyHost, FALSE>>, <<"destroyed", ReadyHost, TRUE>>,
      <<"leftover", RestrictiveHost, FALSE>>, <<"full", NoDirsHost, TRUE>> }

\* What the lifecycle tools can find for web01: a VM whose expiry has passed,
\* a suspended VM within its grace period, a suspended VM past it, the record
\* of a destroyed VM, nothing.
LifecycleWorlds ==
    { <<"expired", ReadyHost, FALSE>>, <<"suspended", ReadyHost, FALSE>>,
      <<"lapsed", ReadyHost, FALSE>>, <<"destroyed", ReadyHost, TRUE>>,
      <<"fresh", ReadyHost, TRUE>> }

\* The record of web01 in world w.
WorldRecord(w) ==
    CASE w \in {"active", "foreign"} ->
            [status |-> "active", ip |-> 1, ipv6 |-> 0, expiry |-> ExpiryDays]
      [] w = "expired" -> [status |-> "active", ip |-> 1, ipv6 |-> 0, expiry |-> -1]
      [] w = "suspended" -> [status |-> "suspended", ip |-> 1, ipv6 |-> 0, expiry |-> -1]
      [] w = "lapsed" -> [status |-> "suspended", ip |-> 1, ipv6 |-> 0, expiry |-> -10]
      [] w = "destroyed" -> [status |-> "destroyed", ip |-> 1, ipv6 |-> 0, expiry |-> -10]
      [] OTHER -> NoRecord

InitIn(W) ==
    /\ pc = [p \in Procs |-> "idle"]
    /\ id = [p \in Procs |-> 0]
    /\ args = [p \in Procs |-> NoArgs]
    /\ allocated = [p \in Procs |-> NewLedger("")]
    /\ out = [p \in Procs |-> <<>>]
    /\ exit = [p \in Procs |-> -1]
    /\ calls = [p \in Procs |-> <<>>]
    /\ msg = [p \in Procs |-> ""]
    /\ nruns = 0
    /\ faults = 0
    /\ usedIp6 = {}
    /\ nft = [t \in TokenIds |-> "free"]
    /\ routes = {}
    /\ xml = [n \in Names |-> 0]
    /\ ciDir = [n \in Names |-> NoCiDir]
    /\ gwReq = NoRequest /\ gwRan = <<>> /\ gwResult = NoResult
    /\ gcRun = NoRun /\ resumeRun = NoRun
    /\ \E world \in W :
        LET w == world[1]
            h == world[2]
            hasVm == w \in {"active", "expired", "suspended", "lapsed"}
        IN  /\ broker = world[3]
            /\ template = h.template
            /\ dirs = [templates |-> h.templates, vms |-> h.vms,
                       cloudinit |-> h.cloudinit]
            /\ usedIp = (IF w = "full" THEN Ips
                         ELSE IF hasVm \/ w = "foreign" THEN {1} ELSE {})
            /\ records = [n \in Names |->
                            IF n = "web01" THEN WorldRecord(w) ELSE NoRecord]
            /\ disk = [n \in Names |->
                            IF n = "web01" /\ (hasVm \/ w = "leftover")
                            THEN -1 ELSE 0]
            /\ domain = [n \in Names |->
                            IF n = "web01" /\ hasVm
                            THEN [defined |-> -1, running |-> w \in {"active", "expired"}]
                            ELSE NoDomain]

Init == InitIn(Worlds)

\* The environment answers a call with outcome o; every outcome but "ok" is
\* a fault, and a behaviour holds at most MaxFaults of them.
Answers(o) ==
    IF o = "ok" THEN faults' = faults
    ELSE faults < MaxFaults /\ faults' = faults + 1

\* ------------------------------------------------- ways a step can end
\* The process is gone and its memory with it; what it printed and its exit
\* status are what the caller keeps.
ProcessEnds(p, status, printed) ==
    /\ pc' = [pc EXCEPT ![p] = "exited"]
    /\ exit' = [exit EXCEPT ![p] = status]
    /\ out' = [out EXCEPT ![p] = printed]
    /\ id' = [id EXCEPT ![p] = 0]
    /\ args' = [args EXCEPT ![p] = NoArgs]
    /\ allocated' = [allocated EXCEPT ![p] = NewLedger("")]
    /\ calls' = [calls EXCEPT ![p] = <<>>]
    /\ msg' = [msg EXCEPT ![p] = ""]

\* An exception nothing catches: traceback on stderr, exit status 1, no JSON,
\* no call of _cleanup_partial.
Uncaught(p) == ProcessEnds(p, 1, out[p])

\* print(json.dumps({"status": "error", "error": msg})); sys.exit(1)
PrintErrorAndExit(p, m) == ProcessEnds(p, 1, Append(out[p], ErrorJson(m)))

\* print(json.dumps({"status": "ok", ...})); sys.exit(0)
PrintOkAndExit(p) == ProcessEnds(p, 0, Append(out[p], OkJson(p)))

\* The step ends inside main at label l with ledger a and call log c.
Step(p, l, a, c) ==
    /\ pc' = [pc EXCEPT ![p] = l]
    /\ allocated' = [allocated EXCEPT ![p] = a]
    /\ calls' = [calls EXCEPT ![p] = c]
    /\ UNCHANGED <<id, args, out, exit, msg>>

Goto(p, l) == Step(p, l, allocated[p], calls[p])

\* ------------------------------------------- fail / _cleanup_partial
\* _cleanup_partial releasing IPv6 before IPv4
CleanupOrder_Ipv6First ==
    <<"c_destroy", "c_undefine", "c_disk", "c_cidir", "c_ipv6", "c_ip", "c_nft">>

\* The order in which _cleanup_partial visits the ledger.
CleanupOrder ==
    <<"c_destroy", "c_undefine", "c_disk", "c_cidir", "c_ip", "c_ipv6", "c_nft">>

\* The truth value Python gives allocated.get("nft_token_id"): None and 0 are falsy.
Truthy(t) == t # NoToken /\ t # 0

\* _cleanup_partial tearing the domain down whenever a disk was created
Applies_DomainByDisk(l, step) ==
    CASE step \in {"c_destroy", "c_undefine", "c_disk"} -> l.disk_path
      [] step = "c_cidir" -> l.cloud_init_dir
      [] step = "c_ip" -> l.ip # 0 /\ l.db
      [] step = "c_ipv6" -> l.ipv6 # 0 /\ l.db
      [] step = "c_nft" -> (l.nft_token_id # NoToken /\ l.nft_token_id # 0) /\ l.db

\* The guard of each block of _cleanup_partial, as far as it reads the ledger.
Applies(l, step) ==
    CASE step \in {"c_destroy", "c_undefine"} -> l.domain_defined
      [] step = "c_disk" -> l.disk_path
      [] step = "c_cidir" -> l.cloud_init_dir
      [] step = "c_ip" -> l.ip # 0 /\ l.db
      [] step = "c_ipv6" -> l.ipv6 # 0 /\ l.db
      [] step = "c_nft" -> Truthy(l.nft_token_id) /\ l.db

StepIndex(step) == CHOOSE i \in 1..Len(CleanupOrder) : CleanupOrder[i] = step

\* The first block after position i whose guard holds; "c_exit" is the return
\* to fail(), which prints the error object and exits.
NextCleanup(l, i) ==
    LET later == {j \in (i + 1)..Len(CleanupOrder) : Applies(l, CleanupOrder[j])}
    IN  IF later = {} THEN "c_exit" ELSE CleanupOrder[Min(later)]

\* fail(m, allocated) with call log c: allocated always holds "name", so it is
\* truthy and _cleanup_partial runs before the error object is printed.
Fail(p, m, c) ==
    /\ pc' = [pc EXCEPT ![p] = NextCleanup(allocated[p], 0)]
    /\ msg' = [msg EXCEPT ![p] = m]
    /\ calls' = [calls EXCEPT ![p] = c]
    /\ UNCHANGED <<id, args, allocated, out, exit>>

\* The end of one block of _cleanup_partial: whatever happened, go on.
CleanupGoesOn(p, step, op) ==
    Step(p, NextCleanup(allocated[p], StepIndex(step)), allocated[p],
         Append(calls[p], op))

\* --------------------------------------------------------------- main
\* Processes are named in the order they are first started.
MayStart(p) == p = "p1" \/ pc["p1"] # "idle"

Start(p) ==
    /\ pc[p] \in {"idle", "exited"}
    /\ MayStart(p)
    /\ nruns < MaxRuns
    /\ \E n \in Names, a \in BOOLEAN :
        /\ args' = [args EXCEPT ![p] = [name |-> n, apply |-> a]]
        /\ allocated' = [allocated EXCEPT ![p] = NewLedger(n)]
    /\ nruns' = nruns + 1
    /\ id' = [id EXCEPT ![p] = nruns + 1]
    /\ out' = [out EXCEPT ![p] = <<>>]
    /\ exit' = [exit EXCEPT ![p] = -1]
    /\ pc' = [pc EXCEPT ![p] = "config"]
    /\ UNCHANGED <<calls, msg, broker, gwVars, opVars, storeVars, fsVars, hvVars, faults>>

\* the imports and load_*_config(): a missing package or db.yaml is reported
\* by fail(msg), any other exception of load_db_config / load_web3_config is
\* not caught
LoadConfig(p) ==
    /\ pc[p] = "config"
    /\ \E o \in {"ok", "missing", "raise"} :
        /\ Answers(o)
        /\ CASE o = "ok" -> Goto(p, "prereq")
             [] o = "missing" -> PrintErrorAndExit(p, "Config not found")
             [] o = "raise" -> Uncaught(p)
    /\ UNCHANGED <<nruns, broker, gwVars, opVars, storeVars, fsVars, hvVars>>

\* mode of a directory Path.mkdir creates (0o777 under umask 022)
MkdirMode == 493
\* os.chmod(TEMPLATE_IMAGE, 0o644)
TemplateMode == 420

ValidatePrerequisites(p) ==
    /\ pc[p] = "prereq"
    /\ IF template = 0
       THEN /\ PrintErrorAndExit(p, "Template image not found")
            /\ UNCHANGED <<dirs, template, faults>>
       ELSE \E o \in FsOutcomes :
            /\ Answers(o)
            /\ IF o = "oserror"
               THEN Uncaught(p) /\ UNCHANGED <<dirs, template>>
               ELSE /\ dirs' = [d \in DOMAIN dirs |->
                                  OrOthersRX(IF dirs[d] = 0 THEN MkdirMode ELSE dirs[d])]
                    /\ template' = TemplateMode
                    /\ IF disk[args[p].name] # 0
                       THEN PrintErrorAndExit(p, "Disk already exists")
                       ELSE Goto(p, "db")
    /\ UNCHANGED <<nruns, broker, gwVars, opVars, storeVars, disk, ciDir, xml, hvVars>>

\* CheckExisting without the test of the record's status
CheckExisting_NoStatusTest(p) ==
    /\ pc[p] = "db"
    /\ \E o \in StoreOutcomes :
        /\ Answers(o)
        /\ IF o = "raise"
           THEN Uncaught(p)
           ELSE Step(p, "alloc_ip", [allocated[p] EXCEPT !.db = TRUE], calls[p])
    /\ UNCHANGED <<nruns, broker, gwVars, opVars, storeVars, fsVars, hvVars>>

\* db = get_database(); allocated["db"] = db; existing = db.get_vm(args.name)
CheckExisting(p) ==
    /\ pc[p] = "db"
    /\ \E o \in StoreOutcomes :
        /\ Answers(o)
        /\ IF o = "raise"
           THEN Uncaught(p)
           ELSE IF records[args[p].name].status \notin {"none", "destroyed"}
           THEN PrintErrorAndExit(p, "VM already exists in database")
           ELSE Step(p, "alloc_ip", [allocated[p] EXCEPT !.db = TRUE], calls[p])
    /\ UNCHANGED <<nruns, broker, gwVars, opVars, storeVars, fsVars, hvVars>>

\* the store's allocate_ip(): the next free address, 0 (None) when exhausted
NextFreeIp == IF Ips \ usedIp = {} THEN 0 ELSE Min(Ips \ usedIp)
NextFreeIp6 == IF Ip6s \ usedIp6 = {} THEN 0 ELSE Min(Ip6s \ usedIp6)
FreeTokens == {t \in TokenIds : nft[t] = "free"}

AllocateIp(p) ==
    /\ pc[p] = "alloc_ip"
    /\ \E o \in StoreOutcomes :
        /\ Answers(o)
        /\ IF o = "raise"
           THEN Uncaught(p) /\ UNCHANGED usedIp
           ELSE IF NextFreeIp = 0
           THEN /\ PrintErrorAndExit(p, "No IPv4 addresses available in pool")
                /\ UNCHANGED usedIp
           ELSE /\ usedIp' = usedIp \cup {NextFreeIp}
                /\ Step(p, "alloc_ipv6", [allocated[p] EXCEPT !.ip = NextFreeIp], calls[p])
    /\ UNCHANGED <<nruns, broker, gwVars, opVars, usedIp6, nft, records, fsVars, hvVars>>

AllocateIpv6(p) ==
    /\ pc[p] = "alloc_ipv6"
    /\ IF ~broker
       THEN Goto(p, "reserve_nft") /\ UNCHANGED <<usedIp6, faults>>
       ELSE \E o \in StoreOutcomes :
            /\ Answers(o)
            /\ IF o = "raise"
               THEN Uncaught(p) /\ UNCHANGED usedIp6
               ELSE /\ usedIp6' = usedIp6 \cup ({NextFreeIp6} \ {0})
                    /\ Step(p, "reserve_nft",
                            [allocated[p] EXCEPT !.ipv6 = NextFreeIp6], calls[p])
    /\ UNCHANGED <<nruns, broker, gwVars, opVars, usedIp, nft, records, fsVars, hvVars>>

ReserveNft(p) ==
    /\ pc[p] = "reserve_nft"
    /\ \E o \in StoreOutcomes :
        /\ Answers(o)
        /\ IF o = "raise" \/ FreeTokens = {}
           THEN Uncaught(p) /\ UNCHANGED nft
           ELSE /\ nft' = [nft EXCEPT ![Min(FreeTokens)] = "reserved"]
                /\ Step(p, "postalloc",
                        [allocated[p] EXCEPT !.nft_token_id = Min(FreeTokens)], calls[p])
    /\ UNCHANGED <<nruns, broker, gwVars, opVars, usedIp, usedIp6, records, fsVars, hvVars>>

\* a dry run that gives its IPv4 address back before it reports
DryRunExit_ReleasesIp(p) ==
    /\ pc[p] = "postalloc"
    /\ ~args[p].apply
    /\ PrintOkAndExit(p)
    /\ usedIp' = usedIp \ {allocated[p].ip}
    /\ UNCHANGED <<nruns, broker, gwVars, opVars, usedIp6, nft, records, fsVars, hvVars, faults>>

\* if not args.apply: print the would-be result, sys.exit(0)
DryRunExit(p) ==
    /\ pc[p] = "postalloc"
    /\ ~args[p].apply
    /\ PrintOkAndExit(p)
    /\ UNCHANGED <<nruns, broker, gwVars, opVars, storeVars, fsVars, hvVars, faults>>

MakeCloudInitDir(p) ==
    /\ pc[p] = "postalloc"
    /\ args[p].apply
    /\ \E o \in FsOutcomes :
        /\ Answers(o)
        /\ IF o = "oserror"
           THEN Uncaught(p) /\ UNCHANGED ciDir
           ELSE /\ ciDir' = [ciDir EXCEPT ![args[p].name].exists = TRUE]
                /\ Step(p, "render", [allocated[p] EXCEPT !.cloud_init_dir = TRUE], calls[p])
    /\ UNCHANGED <<nruns, broker, gwVars, opVars, storeVars, dirs, template, disk, xml, hvVars>>

\* user_data is read from --cloud-init-content or rendered, then written to
\* ci_dir / "user-data"; only a failure of render_cloud_init is caught.
RenderCloudInit(p) ==
    /\ pc[p] = "render"
    /\ \E o \in {"ok", "read_raises", "render_raises", "write_raises"} :
        /\ Answers(o)
        /\ CASE o = "render_raises" ->
                   Fail(p, "Failed to render cloud-init", calls[p]) /\ UNCHANGED ciDir
             [] o = "ok" /\ ciDir[args[p].name].exists ->
                   /\ ciDir' = [ciDir EXCEPT ![args[p].name].user_data = id[p]]
                   /\ Goto(p, "localds")
             [] OTHER -> Uncaught(p) /\ UNCHANGED ciDir
    /\ UNCHANGED <<nruns, broker, gwVars, opVars, storeVars, dirs, template, disk, xml, hvVars>>

\* subprocess.run(["cloud-localds", ...], check=True), then os.chmod of the ISO
CloudLocalds(p) ==
    /\ pc[p] = "localds"
    /\ \E o \in {"ok", "nonzero", "notfound", "oserror"} :
        /\ Answers(o)
        /\ CASE o = "ok" /\ ciDir[args[p].name].user_data # 0 ->
                   /\ ciDir' = [ciDir EXCEPT ![args[p].name].iso = id[p]]
                   /\ Goto(p, "qemu_img")
             [] o = "oserror" -> Uncaught(p) /\ UNCHANGED ciDir
             [] o = "notfound" ->
                   Fail(p, "cloud-localds not found", calls[p]) /\ UNCHANGED ciDir
             [] OTHER -> Fail(p, "cloud-localds failed", calls[p]) /\ UNCHANGED ciDir
    /\ UNCHANGED <<nruns, broker, gwVars, opVars, storeVars, dirs, template, disk, xml, hvVars>>

\* subprocess.run(["qemu-img", "create", ...], check=True), os.chmod(disk_path),
\* allocated["disk_path"] = str(disk_path). Only CalledProcessError is caught;
\* qemu-img create writes the file whether or not one is there.
QemuImgCreate(p) ==
    /\ pc[p] = "qemu_img"
    /\ \E o \in {"ok", "nonzero", "nonzero_partial", "notfound", "chmod_raises"} :
        /\ Answers(o)
        /\ CASE o = "ok" ->
                   /\ disk' = [disk EXCEPT ![args[p].name] = id[p]]
                   /\ Step(p, "write_xml", [allocated[p] EXCEPT !.disk_path = TRUE], calls[p])
             [] o = "nonzero" ->
                   Fail(p, "qemu-img create failed", calls[p]) /\ UNCHANGED disk
             [] o = "nonzero_partial" ->
                   /\ disk' = [disk EXCEPT ![args[p].name] = id[p]]
                   /\ Fail(p, "qemu-img create failed", calls[p])
             [] o = "notfound" -> Uncaught(p) /\ UNCHANGED disk
             [] o = "chmod_raises" ->
                   /\ disk' = [disk EXCEPT ![args[p].name] = id[p]]
                   /\ Uncaught(p)
    /\ UNCHANGED <<nruns, broker, gwVars, opVars, storeVars, dirs, template, ciDir, xml, hvVars>>

\* xml_path.write_text(domain_xml)
WriteDomainXml(p) ==
    /\ pc[p] = "write_xml"
    /\ \E o \in FsOutcomes :
        /\ Answers(o)
        /\ IF o = "oserror"
           THEN Uncaught(p) /\ UNCHANGED xml
           ELSE xml' = [xml EXCEPT ![args[p].name] = id[p]] /\ Goto(p, "define")
    /\ UNCHANGED <<nruns, broker, gwVars, opVars, storeVars, dirs, template, disk, ciDir, hvVars>>

\* The gateway answers ok only if the descriptor file is there and virsh
\* define exits 0, which libvirt refuses for a name that is already defined.
DefineCanSucceed(n) == xml[n] # 0 /\ domain[n].defined = 0
\* virsh start exits 0 only for a defined domain that is not running.
StartCanSucceed(n) == domain[n].defined # 0 /\ ~domain[n].running

\* result = call("virsh-define", xml_path=...); not ok: fail("virsh-define
\* failed"); an exception: fail("Root agent error")
VirshDefine(p) ==
    /\ pc[p] = "define"
    /\ \E o \in GatewayOutcomes :
        /\ Answers(o)
        /\ LET c == Append(calls[p], "virsh-define")
           IN  CASE o = "ok" /\ DefineCanSucceed(args[p].name) ->
                       /\ domain' = [domain EXCEPT ![args[p].name].defined = id[p]]
                       /\ Step(p, "start", [allocated[p] EXCEPT !.domain_defined = TRUE], c)
                 [] o = "raise" -> Fail(p, "Root agent error", c) /\ UNCHANGED domain
                 [] OTHER -> Fail(p, "virsh-define failed", c) /\ UNCHANGED domain
    /\ UNCHANGED <<nruns, broker, gwVars, opVars, storeVars, fsVars, routes>>

\* VirshStart going on to the registration whatever the gateway answered
VirshStart_IgnoresResult(p) ==
    /\ pc[p] = "start"
    /\ \E o \in GatewayOutcomes :
        /\ Answers(o)
        /\ domain' = (IF o = "ok" /\ StartCanSucceed(args[p].name)
                      THEN [domain EXCEPT ![args[p].name].running = TRUE]
                      ELSE domain)
        /\ Step(p, "unlink_xml", allocated[p], Append(calls[p], "virsh-start"))
    /\ UNCHANGED <<nruns, broker, gwVars, opVars, storeVars, fsVars, routes>>

\* result = call("virsh-start", domain=args.name)
VirshStart(p) ==
    /\ pc[p] = "start"
    /\ \E o \in GatewayOutcomes :
        /\ Answers(o)
        /\ LET c == Append(calls[p], "virsh-start")
           IN  CASE o = "ok" /\ StartCanSucceed(args[p].name) ->
                       /\ domain' = [domain EXCEPT ![args[p].name].running = TRUE]
                       /\ Step(p, "unlink_xml", allocated[p], c)
                 [] o = "raise" -> Fail(p, "Root agent error", c) /\ UNCHANGED domain
                 [] OTHER -> Fail(p, "virsh-start failed", c) /\ UNCHANGED domain
    /\ UNCHANGED <<nruns, broker, gwVars, opVars, storeVars, fsVars, routes>>

\* xml_path.unlink(missing_ok=True)
UnlinkDomainXml(p) ==
    /\ pc[p] = "unlink_xml"
    /\ \E o \in FsOutcomes :
        /\ Answers(o)
        /\ IF o = "oserror"
           THEN Uncaught(p) /\ UNCHANGED xml
           ELSE /\ xml' = [xml EXCEPT ![args[p].name] = 0]
                /\ Goto(p, IF allocated[p].ipv6 # 0 THEN "route" ELSE "register")
    /\ UNCHANGED <<nruns, broker, gwVars, opVars, storeVars, dirs, template, disk, ciDir, hvVars>>

\* call("ip6-route-add", ...): a failure is logged and the run goes on
AddIpv6Route(p) ==
    /\ pc[p] = "route"
    /\ \E o \in GatewayOutcomes :
        /\ Answers(o)
        /\ routes' = (IF o = "ok" THEN routes \cup {allocated[p].ipv6} ELSE routes)
    /\ Step(p, "register", allocated[p], Append(calls[p], "ip6-route-add"))
    /\ UNCHANGED <<nruns, broker, gwVars, opVars, storeVars, fsVars, domain>>

\* db.register_vm(...), then the success object
RegisterVm(p) ==
    /\ pc[p] = "register"
    /\ \E o \in StoreOutcomes :
        /\ Answers(o)
        /\ IF o = "raise"
           THEN Fail(p, "Database registration failed", calls[p]) /\ UNCHANGED records
           ELSE /\ records' = [records EXCEPT ![args[p].name] =
                       [status |-> "active", ip |-> allocated[p].ip,
                        ipv6 |-> allocated[p].ipv6, expiry |-> ExpiryDays]]
                /\ PrintOkAndExit(p)
    /\ UNCHANGED <<nruns, broker, gwVars, opVars, usedIp, usedIp6, nft, fsVars, hvVars>>

\* ---------------------------------------- the blocks of _cleanup_partial
\* call("virsh-destroy", domain=name); the result is not read, an exception
\* is swallowed; virsh destroy stops the domain only if it is running
CleanupDestroy(p) ==
    /\ pc[p] = "c_destroy"
    /\ \E o \in GatewayOutcomes :
        /\ Answers(o)
        /\ domain' = (IF o = "ok" /\ domain[args[p].name].running
                      THEN [domain EXCEPT ![args[p].name].running = FALSE]
                      ELSE domain)
    /\ CleanupGoesOn(p, "c_destroy", "virsh-destroy")
    /\ UNCHANGED <<nruns, broker, gwVars, opVars, storeVars, fsVars, routes>>

\* call("virsh-undefine", domain=name, remove_storage=True); virsh removes
\* the volumes it manages, so the overlay may or may not go with the domain
CleanupUndefine(p) ==
    /\ pc[p] = "c_undefine"
    /\ \E o \in GatewayOutcomes, removed \in BOOLEAN :
        /\ Answers(o)
        /\ removed => /\ o = "ok"
                      /\ domain[args[p].name].defined # 0
                      /\ disk[args[p].name] # 0
        /\ domain' = (IF o = "ok"
                      THEN [domain EXCEPT ![args[p].name].defined = 0]
                      ELSE domain)
        /\ disk' = (IF removed THEN [disk EXCEPT ![args[p].name] = 0] ELSE disk)
    /\ CleanupGoesOn(p, "c_undefine", "virsh-undefine")
    /\ UNCHANGED <<nruns, broker, gwVars, opVars, storeVars, dirs, template, ciDir, xml, routes>>

\* if disk and Path(disk).exists(): Path(disk).unlink(), OSError swallowed
CleanupDisk(p) ==
    /\ pc[p] = "c_disk"
    /\ IF disk[args[p].name] = 0
       THEN CleanupGoesOn(p, "c_disk", "no-disk") /\ UNCHANGED <<disk, faults>>
       ELSE /\ \E o \in FsOutcomes :
                /\ Answers(o)
                /\ disk' = (IF o = "ok" THEN [disk EXCEPT ![args[p].name] = 0] ELSE disk)
            /\ CleanupGoesOn(p, "c_disk", "unlink")
    /\ UNCHANGED <<nruns, broker, gwVars, opVars, storeVars, dirs, template, ciDir, xml, hvVars>>

\* if ci_dir and Path(ci_dir).exists(): shutil.rmtree(ci_dir), OSError swallowed
CleanupCloudInit(p) ==
    /\ pc[p] = "c_cidir"
    /\ IF ~ciDir[args[p].name].exists
       THEN CleanupGoesOn(p, "c_cidir", "no-ci-dir") /\ UNCHANGED <<ciDir, faults>>
       ELSE /\ \E o \in FsOutcomes :
                /\ Answers(o)
                /\ ciDir' = (IF o = "ok" THEN [ciDir EXCEPT ![args[p].name] = NoCiDir]
                             ELSE ciDir)
            /\ CleanupGoesOn(p, "c_cidir", "rmtree")
    /\ UNCHANGED <<nruns, broker, gwVars, opVars, storeVars, dirs, template, disk, xml, hvVars>>

\* CleanupIp releasing the pool's latest allocation instead of the ledger's
\* own address
CleanupIp_ReleasesLatest(p) ==
    /\ pc[p] = "c_ip"
    /\ \E o \in StoreOutcomes :
        /\ Answers(o)
        /\ usedIp' = (IF o = "ok" /\ usedIp # {}
                      THEN usedIp \ {CHOOSE x \in usedIp : \A y \in usedIp : y <= x}
                      ELSE usedIp)
    /\ CleanupGoesOn(p, "c_ip", "release_ip")
    /\ UNCHANGED <<nruns, broker, gwVars, opVars, usedIp6, nft, records, fsVars, hvVars>>

\* allocated["db"].release_ip(allocated["ip"]), exception swallowed
CleanupIp(p) ==
    /\ pc[p] = "c_ip"
    /\ \E o \in StoreOutcomes :
        /\ Answers(o)
        /\ usedIp' = (IF o = "ok" THEN usedIp \ {allocated[p].ip} ELSE usedIp)
    /\ CleanupGoesOn(p, "c_ip", "release_ip")
    /\ UNCHANGED <<nruns, broker, gwVars, opVars, usedIp6, nft, records, fsVars, hvVars>>

\* allocated["db"].release_ipv6(allocated["ipv6"]), exception swallowed
CleanupIpv6(p) ==
    /\ pc[p] = "c_ipv6"
    /\ \E o \in StoreOutcomes :
        /\ Answers(o)
        /\ usedIp6' = (IF o = "ok" THEN usedIp6 \ {allocated[p].ipv6} ELSE usedIp6)
    /\ CleanupGoesOn(p, "c_ipv6", "release_ipv6")
    /\ UNCHANGED <<nruns, broker, gwVars, opVars, usedIp, nft, records, fsVars, hvVars>>

\* allocated["db"].mark_nft_failed(allocated["nft_token_id"]), exception swallowed
CleanupNft(p) ==
    /\ pc[p] = "c_nft"
    /\ \E o \in StoreOutcomes :
        /\ Answers(o)
        /\ nft' = (IF o = "ok"
                   THEN [nft EXCEPT ![allocated[p].nft_token_id] = "failed"]
                   ELSE nft)
    /\ CleanupGoesOn(p, "c_nft", "mark_nft_failed")
    /\ UNCHANGED <<nruns, broker, gwVars, opVars, usedIp, usedIp6, records, fsVars, hvVars>>

\* back in fail(): print the error object, sys.exit(1)
FailExit(p) ==
    /\ pc[p] = "c_exit"
    /\ PrintErrorAndExit(p, msg[p])
    /\ UNCHANGED <<nruns, broker, gwVars, opVars, storeVars, fsVars, hvVars, faults>>

\* ---------------------------------------------------------------- Next
\* The steps of a started process, from the load of its configuration to
\* its exit.
Proceed(p) ==
        \/ LoadConfig(p)
        \/ ValidatePrerequisites(p)
        \/ CheckExisting(p)
        \/ AllocateIp(p)
        \/ AllocateIpv6(p)
        \/ ReserveNft(p)
        \/ DryRunExit(p)
        \/ MakeCloudInitDir(p)
        \/ RenderCloudInit(p)
        \/ CloudLocalds(p)
        \/ QemuImgCreate(p)
        \/ WriteDomainXml(p)
        \/ VirshDefine(p)
        \/ VirshStart(p)
        \/ UnlinkDomainXml(p)
        \/ AddIpv6Route(p)
        \/ RegisterVm(p)
        \/ CleanupDestroy(p)
        \/ CleanupUndefine(p)
        \/ CleanupDisk(p)
        \/ CleanupCloudInit(p)
        \/ CleanupIp(p)
        \/ CleanupIpv6(p)
        \/ CleanupNft(p)
        \/ FailExit(p)

Next == \E p \in Procs : Start(p) \/ Proceed(p)

Spec == Init /\ [][Next]_vars

\* ------------------------------------------------- tools that never exit
\* subprocess.run([...], check=True, capture_output=True, text=True) is given
\* no timeout=: main waits for as long as the tool runs.
CloudLocaldsHangs(p) ==
    /\ pc[p] = "localds"
    /\ Answers("hang")
    /\ Goto(p, "waiting")
    /\ UNCHANGED <<nruns, broker, gwVars, opVars, storeVars, fsVars, hvVars>>

QemuImgHangs(p) ==
    /\ pc[p] = "qemu_img"
    /\ Answers("hang")
    /\ Goto(p, "waiting")
    /\ UNCHANGED <<nruns, broker, gwVars, opVars, storeVars, fsVars, hvVars>>

\* One operator invoking vm-create, one run after the other; the operating
\* system schedules the process whenever it can take a step, and a tool may
\* never return.
Operator == "p1"

LiveNext ==
    \/ Start(Operator)
    \/ Proceed(Operator)
    \/ CloudLocaldsHangs(Operator)
    \/ QemuImgHangs(Operator)

LiveSpec == Init /\ [][LiveNext]_vars /\ WF_vars(Proceed(Operator))

\* ============================================ root agent actions (virsh.py)
\* Characters are one-character strings, a string is a sequence of them.
\* One representative of each kind of character DOMAIN_RE tells apart.
Letters == {"a", "Z"}
Digits == {"7"}
NameChars == Letters \cup Digits \cup {".", "_", "-"}
OtherChars == {" ", ";", "\n"}
Chars == NameChars \cup OtherChars

MaxLen == 2       \* characters of a domain value that are chosen freely
MaxPathLen == 5   \* components of an xml_path value

\* the {0,63} of DOMAIN_RE
DomainQuantMax == 63

Strings == UNION {[1..n -> Chars] : n \in 0..MaxLen}
Fill(n) == [i \in 1..n |-> "a"]
\* s with n more name characters after its first one: the long values
Stretch(s, n) ==
    IF s = <<>> THEN Fill(n) ELSE <<Head(s)>> \o Fill(n) \o Tail(s)
Fillers == {0, DomainQuantMax - MaxLen + 1, DomainQuantMax}

\* A parameter of a request: absent, a value that is no string, or a string.
Absent == [type |-> "absent", v |-> <<>>]
NotAString == [type |-> "int", v |-> <<>>]
Str(s) == [type |-> "str", v |-> s]
DomainValues ==
    {Absent, NotAString} \cup {Str(Stretch(s, n)) : s \in Strings, n \in Fillers}

\* [a-zA-Z0-9][a-zA-Z0-9._-]{0,63} matching all of s
ReBody(s) ==
    /\ Len(s) >= 1
    /\ s[1] \in Letters \cup Digits
    /\ Len(s) - 1 <= DomainQuantMax
    /\ \A i \in 2..Len(s) : s[i] \in NameChars

\* DOMAIN_RE.match(s): ^ is the start of s; $ is the end of s or the place
\* just before a newline that ends s
DOMAIN_RE(s) ==
    \/ ReBody(s)
    \/ Len(s) >= 1 /\ s[Len(s)] = "\n" /\ ReBody(SubSeq(s, 1, Len(s) - 1))

\* params.get(key, ''): the empty string when the key is absent
Get(v) == IF v.type = "absent" THEN Str(<<>>) ELSE v

\* validate_domain returns the domain; otherwise it raises ValueError
DomainAccepted(v) == Get(v).type = "str" /\ DOMAIN_RE(Get(v).v)

\* ------------------------------------------------------ paths and files
\* An absolute path is the sequence of its components.
Root == <<"var", "lib", "blockhost">>
Components == {"var", "lib", "blockhost", "vms", "..", "web01.xml"}
Paths == UNION {[1..n -> Components] : n \in 0..MaxPathLen}
XmlPathValues == {Absent, NotAString} \cup {Str(q) : q \in Paths}

\* What the host holds: the descriptor a create_vm run wrote, and a file of
\* the same name one directory above the approved root.
HostDirs == {<<>>, <<"var">>, <<"var", "lib">>, Root, Root \o <<"vms">>}
HostFiles == {Root \o <<"web01.xml">>, <<"var", "lib", "web01.xml">>}

\* The file or directory the kernel reaches walking `rest` from directory
\* `cur`; <<"?">> when a component is missing or is no directory.
RECURSIVE Walk(_, _)
Walk(cur, rest) ==
    IF rest = <<>> THEN cur
    ELSE IF cur \notin HostDirs THEN <<"?">>
    ELSE IF Head(rest) = ".."
         THEN Walk(IF cur = <<>> THEN cur ELSE SubSeq(cur, 1, Len(cur) - 1), Tail(rest))
         ELSE Walk(Append(cur, Head(rest)), Tail(rest))

\* os.path.isfile(xml_path)
IsFile(q) == Walk(<<>>, q) \in HostFiles

\* xml_path.startswith('/var/lib/blockhost/')
StartsWithRoot(q) == Len(q) > Len(Root) /\ SubSeq(q, 1, Len(Root)) = Root

\* --------------------------------------------------------- the handlers
\* An entry of ACTIONS: the handler, the virsh subcommand and the timeout it
\* gives to run()
Entry(handler, sub, timeout) == [handler |-> handler, sub |-> sub, timeout |-> timeout]

\* ACTIONS with one more entry than the six
Actions_WithConsole ==
    ("virsh-start" :> Entry("simple", "start", 120))
    @@ ("virsh-destroy" :> Entry("simple", "destroy", 120))
    @@ ("virsh-shutdown" :> Entry("simple", "shutdown", 300))
    @@ ("virsh-reboot" :> Entry("simple", "reboot", 120))
    @@ ("virsh-console" :> Entry("simple", "console", 120))
    @@ ("virsh-define" :> Entry("define", "define", 30))
    @@ ("virsh-undefine" :> Entry("undefine", "undefine", 60))

\* ACTIONS = {'virsh-start': ..., ...} (ACTIONS is a reserved word here)
Actions ==
    ("virsh-start" :> Entry("simple", "start", 120))
    @@ ("virsh-destroy" :> Entry("simple", "destroy", 120))
    @@ ("virsh-shutdown" :> Entry("simple", "shutdown", 300))
    @@ ("virsh-reboot" :> Entry("simple", "reboot", 120))
    @@ ("virsh-define" :> Entry("define", "define", 30))
    @@ ("virsh-undefine" :> Entry("undefine", "undefine", 60))

\* Action names a client may send: those of ACTIONS and some others.
RequestNames == DOMAIN Actions \cup {"virsh-console", "virsh-edit", "VIRSH-START"}

\* rc of run(): 0, or not 0 (the command failed or ran into its timeout)
ExitCodes == {0, 1}

\* run(['virsh', sub, arg] + flags, timeout=t), which returned rc
Command(sub, arg, flags, t, rc) ==
    [sub |-> sub, arg |-> arg, flags |-> flags, timeout |-> t, rc |-> rc]

\* {'ok': True, 'output': out} / {'ok': False, 'error': ...} / an exception
Returned(ok, error) == [kind |-> "returned", ok |-> ok, error |-> error]
Raised(error) == [kind |-> "raised", ok |-> FALSE, error |-> error]
\* if rc != 0: return {'ok': False, 'error': err or out}
AfterRun(rc) == IF rc # 0 THEN Returned(FALSE, "stderr") ELSE Returned(TRUE, "")

\* The root agent handles one request; the handlers keep no state, so the
\* next request would be handled the same way.
Idle == gwReq = NoRequest

sagaVars ==
    <<pc, id, args, allocated, out, exit, calls, msg, nruns, broker, usedIp,
      usedIp6, nft, records, dirs, template, disk, ciDir, xml, domain, routes,
      faults>>

\* _handle_virsh_simple(params, subcommand, timeout) for the four actions
\* that take only a domain
handle_virsh_simple(name) ==
    /\ Idle
    /\ name \in DOMAIN Actions /\ Actions[name].handler = "simple"
    /\ \E v \in DomainValues, rc \in ExitCodes :
        /\ gwReq' = [action |-> name, params |-> [domain |-> v]]
        /\ IF DomainAccepted(v)
           THEN /\ gwRan' = <<Command(Actions[name].sub, Get(v).v, <<>>,
                                      Actions[name].timeout, rc)>>
                /\ gwResult' = AfterRun(rc)
           ELSE /\ gwRan' = <<>>
                /\ gwResult' = Raised("ValueError: Invalid domain name")
    /\ UNCHANGED <<sagaVars, opVars>>

\* handle_virsh_define(params)
handle_virsh_define ==
    /\ Idle
    /\ "virsh-define" \in DOMAIN Actions
    /\ \E v \in XmlPathValues, rc \in ExitCodes :
        LET xml_path == Get(v)
        IN  /\ gwReq' = [action |-> "virsh-define", params |-> [xml_path |-> v]]
            /\ CASE xml_path.type # "str" \/ xml_path.v = <<>> ->
                       /\ gwRan' = <<>>
                       /\ gwResult' = Returned(FALSE, "xml_path is required")
                 [] OTHER ->
                       IF ~StartsWithRoot(xml_path.v)
                       THEN /\ gwRan' = <<>>
                            /\ gwResult' = Returned(FALSE, "xml_path must be under /var/lib/blockhost/")
                       ELSE IF ~IsFile(xml_path.v)
                       THEN /\ gwRan' = <<>>
                            /\ gwResult' = Returned(FALSE, "XML file not found")
                       ELSE /\ gwRan' = <<Command("define", xml_path.v, <<>>,
                                                  Actions["virsh-define"].timeout, rc)>>
                            /\ gwResult' = AfterRun(rc)
    /\ UNCHANGED <<sagaVars, opVars>>

\* Values of remove_storage a request can carry: absent, a JSON boolean, a
\* number, a string.
True == [type |-> "bool", v |-> <<"true">>]
False == [type |-> "bool", v |-> <<>>]
RemoveStorageValues ==
    {Absent, True, False, NotAString, Str(<<>>), Str(<<"f", "a", "l", "s", "e">>)}

\* The truth value of `if params.get('remove_storage', False):` -- False, an
\* empty string and the absent key are falsy, every other value is truthy
\* (NotAString stands for a number other than 0).
IsTrue(v) == v.type # "absent" /\ (v.type \in {"bool", "str"} => v.v # <<>>)

\* handle_virsh_undefine(params)
handle_virsh_undefine ==
    /\ Idle
    /\ "virsh-undefine" \in DOMAIN Actions
    /\ \E v \in DomainValues, remove_storage \in RemoveStorageValues, rc \in ExitCodes :
        /\ gwReq' = [action |-> "virsh-undefine",
                     params |-> [domain |-> v, remove_storage |-> remove_storage]]
        /\ IF DomainAccepted(v)
           THEN /\ gwRan' = <<Command("undefine", Get(v).v,
                                      IF IsTrue(remove_storage)
                                      THEN <<"--remove-all-storage">> ELSE <<>>,
                                      Actions["virsh-undefine"].timeout, rc)>>
                /\ gwResult' = AfterRun(rc)
           ELSE /\ gwRan' = <<>>
                /\ gwResult' = Raised("ValueError: Invalid domain name")
    /\ UNCHANGED <<sagaVars, opVars>>

\* A name that is no key of ACTIONS has no handler: nothing of this module
\* runs for it, and the caller gets an error, as a result or as an exception.
UnknownAction ==
    /\ Idle
    /\ \E name \in RequestNames \ DOMAIN Actions :
        /\ gwReq' = [action |-> name, params |-> <<>>]
        /\ gwRan' = <<>>
        /\ gwResult' \in {Returned(FALSE, "unknown action"), Raised("KeyError")}
    /\ UNCHANGED <<sagaVars, opVars>>

GatewayNext ==
    \/ \E name \in RequestNames : handle_virsh_simple(name)
    \/ handle_virsh_define
    \/ handle_virsh_undefine
    \/ UnknownAction

GatewaySpec == Init /\ [][GatewayNext]_vars

\* ============================================ vm-gc.py and vm-resume.py
\* the grace period of db.yaml, in days (--grace-days overrides it)
DbGraceDays == 7
\* args.grace_days when --grace-days is not given
NoGraceDays == -1

GcArgs ==
    [execute : BOOLEAN, suspend_only : BOOLEAN, destroy_only : BOOLEAN,
     grace_days : {NoGraceDays, 0}]
\* args.extend_days when --extend-days is not given
NoExtendDays == -1
ResumeArgs == [name : Names, extend_days : {NoExtendDays, 30}, dry_run : BOOLEAN]

storeFsHvVars ==
    <<broker, usedIp, usedIp6, nft, records, dirs, template, disk, ciDir, xml,
      domain, routes, faults>>

\* The operator starts a tool when no vm-create run of theirs is under way.
OperatorFree == pc[Operator] \in {"idle", "exited"}

\* vm-gc with --execute setting every active record whose expiry has passed
\* to destroyed
vm_gc_DestroysExpired ==
    /\ OperatorFree
    /\ \E a \in GcArgs :
        /\ gcRun' = [args |-> a,
                     out |-> [suspend |-> 0, destroy |-> 0, dry_run_note |-> ~a.execute],
                     calls |-> <<>>, exit |-> 0]
        /\ records' = [n \in Names |->
                         IF a.execute /\ records[n].status = "active"
                                      /\ records[n].expiry < 0
                         THEN [records[n] EXCEPT !.status = "destroyed"]
                         ELSE records[n]]
    /\ UNCHANGED <<procVars, broker, usedIp, usedIp6, nft, fsVars, hvVars, faults,
                   gwVars, resumeRun>>

\* vm-gc.py main: parse the arguments, print "Suspend: 0 candidates" and
\* "Destroy: 0 candidates", and without --execute the dry-run note; the store
\* is not opened and the gateway is not called (the body is a TODO)
vm_gc ==
    /\ OperatorFree
    /\ \E a \in GcArgs :
        gcRun' = [args |-> a,
                  out |-> [suspend |-> 0, destroy |-> 0, dry_run_note |-> ~a.execute],
                  calls |-> <<>>, exit |-> 0]
    /\ UNCHANGED <<procVars, storeFsHvVars, gwVars, resumeRun>>

\* vm-resume.py main: parse the arguments, print "ERROR: not yet implemented"
\* on stderr, sys.exit(1)
vm_resume ==
    /\ OperatorFree
    /\ \E a \in ResumeArgs :
        resumeRun' = [args |-> a, out |-> <<>>, err |-> "not yet implemented",
                      calls |-> <<>>, exit |-> 1]
    /\ UNCHANGED <<procVars, storeFsHvVars, gwVars, gcRun>>

\* One operator running vm-create, vm-gc and vm-resume against one store.
LifecycleNext ==
    \/ Start(Operator)
    \/ Proceed(Operator)
    \/ vm_gc
    \/ vm_resume

LifecycleInit == InitIn(LifecycleWorlds)

LifecycleSpec == LifecycleInit /\ [][LifecycleNext]_vars

\* ============================================================== claims
Range(f) == {f[i] : i \in DOMAIN f}
Running(p) == pc[p] \notin {"idle", "exited"}
\* process p takes a step that ends its run with a failure
EndsFailed(p) == Running(p) /\ pc'[p] = "exited" /\ exit'[p] = 1

\* Every resource of the ledger has had its compensating operation issued.
LedgerCompensated(p) ==
    LET l == allocated[p]
        done == Range(calls[p])
    IN  /\ l.ip # 0 => "release_ip" \in done
        /\ l.ipv6 # 0 => "release_ipv6" \in done
        /\ l.nft_token_id # NoToken => "mark_nft_failed" \in done
        /\ l.disk_path => done \cap {"unlink", "no-disk"} # {}
        /\ l.cloud_init_dir => done \cap {"rmtree", "no-ci-dir"} # {}
        /\ l.domain_defined => {"virsh-destroy", "virsh-undefine"} \subseteq done

\* C1: a create_vm run that fails after the IPv4 allocation, whatever the
\* failing step and the way it fails, ends only after the compensating
\* operation of every resource its ledger holds has been issued.
C1_FailedRunIsCompensated ==
    [][\A p \in Procs :
         (EndsFailed(p) /\ allocated[p].ip # 0) => LedgerCompensated(p)]_vars

\* C2: of two concurrent create_vm runs for one name at most one creates the
\* disk overlay, and what a run has created (overlay, cloud-init directory,
\* domain) stays its own until that run itself fails: the other run does not
\* overwrite, delete or undefine it.
PastDiskCreation(p) ==
    pc[p] \in {"write_xml", "define", "start", "unlink_xml", "route", "register"}

C2_SameNameRunsExclude ==
    /\ \A p, q \in Procs :
         (p # q /\ Running(p) /\ Running(q) /\ args[p].name = args[q].name)
            => ~(allocated[p].disk_path /\ allocated[q].disk_path)
    /\ \A p \in Procs :
         PastDiskCreation(p) =>
            /\ disk[args[p].name] = id[p]
            /\ ciDir[args[p].name].exists
            /\ allocated[p].domain_defined => domain[args[p].name].defined = id[p]

\* A run holds a resource from the call that allocated it until it has
\* issued the call that gives it back.
HoldsIp(p) == allocated[p].ip # 0 /\ "release_ip" \notin Range(calls[p])
HoldsIp6(p) == allocated[p].ipv6 # 0 /\ "release_ipv6" \notin Range(calls[p])
HoldsToken(p) ==
    allocated[p].nft_token_id # NoToken /\ "mark_nft_failed" \notin Range(calls[p])
Live(n) == records[n].status \notin {"none", "destroyed"}
Count(c, op) == Cardinality({i \in DOMAIN c : c[i] = op})

\* C3: with atomic allocate/release in the store, no two runs hold the same
\* IPv4 address, IPv6 address or token id at the same time; what a run or a
\* live record holds is allocated in the pool (nobody else released it); the
\* address of a run, and so the ip a successful run returns and registers, is
\* in no other live record; a run issues each release at most once.
C3_AllocationsExclusive ==
    /\ \A p, q \in Procs : p # q =>
         /\ (HoldsIp(p) /\ HoldsIp(q)) => allocated[p].ip # allocated[q].ip
         /\ (HoldsIp6(p) /\ HoldsIp6(q)) => allocated[p].ipv6 # allocated[q].ipv6
         /\ (HoldsToken(p) /\ HoldsToken(q))
               => allocated[p].nft_token_id # allocated[q].nft_token_id
    /\ \A p \in Procs :
         /\ HoldsIp(p) => allocated[p].ip \in usedIp
         /\ HoldsIp6(p) => allocated[p].ipv6 \in usedIp6
         /\ HoldsIp(p) => \A n \in Names : Live(n) => records[n].ip # allocated[p].ip
         /\ \A op \in {"release_ip", "release_ipv6", "mark_nft_failed"} :
               Count(calls[p], op) <= 1
         /\ (pc[p] = "exited" /\ exit[p] = 0) =>
               /\ out[p][1].ip \in usedIp
               /\ \A n \in Names \ {out[p][1].vmid} :
                     Live(n) => records[n].ip # out[p][1].ip
    /\ \A n \in Names : Live(n) =>
         /\ records[n].ip \in usedIp
         /\ \A m \in Names \ {n} : Live(m) => records[m].ip # records[n].ip

\* C3 witness: a failed run has given its address back and a concurrent run
\* has been handed that same address while the first is still cleaning up.
C3_Witness ==
    \E p, q \in Procs :
        /\ p # q
        /\ "release_ip" \in Range(calls[p])
        /\ HoldsIp(q)
        /\ allocated[q].ip = allocated[p].ip

\* C4: when _cleanup_partial has run to its end, the compensating operation
\* of every resource in the ledger has been issued, whichever of the others
\* failed.
C4_EveryCompensationRuns ==
    \A p \in Procs : pc[p] = "c_exit" => LedgerCompensated(p)

\* The compensating operations a run has issued, in the order it issued them.
RECURSIVE Compensations(_)
Compensations(c) ==
    IF c = <<>> THEN <<>>
    ELSE IF Head(c) \in {"virsh-destroy", "virsh-undefine", "unlink", "rmtree",
                         "release_ip", "release_ipv6", "mark_nft_failed"}
    THEN <<Head(c)>> \o Compensations(Tail(c))
    ELSE Compensations(Tail(c))

\* c lists its operations in the order of `order`, each at most once
InOrder(c, order) ==
    \A i, j \in DOMAIN c : i < j =>
        \E a, b \in DOMAIN order : a < b /\ order[a] = c[i] /\ order[b] = c[j]

C6_TeardownIffDefined ==
    [][\A p \in Procs : (pc[p] = "c_exit" /\ pc'[p] # "c_exit") =>
         LET done == Range(calls[p])
             comp == Compensations(calls[p])
         IN  /\ ("virsh-destroy" \in done) <=> ("virsh-start" \in done)
             /\ ("virsh-undefine" \in done) <=> ("virsh-start" \in done)
             /\ "virsh-start" \in done =>
                    (comp[1] = "virsh-destroy" /\ comp[2] = "virsh-undefine")
             /\ msg[p] = "virsh-define failed" =>
                    done \cap {"virsh-destroy", "virsh-undefine"} = {}
             /\ msg[p] = "virsh-start failed" =>
                    /\ {"virsh-destroy", "virsh-undefine", "release_ip"} \subseteq done
                    /\ done \cap {"unlink", "no-disk"} # {}
             /\ out'[p] = <<ErrorJson(msg[p])>>
             /\ exit'[p] = 1
             /\ pc'[p] = "exited"]_vars

\* C6 witness: virsh-start answered ok=false and the teardown has been issued.
C6_Witness ==
    \E p \in Procs :
        /\ pc[p] = "c_exit"
        /\ msg[p] = "virsh-start failed"
        /\ {"virsh-destroy", "virsh-undefine", "unlink", "release_ip"}
              \subseteq Range(calls[p])
        /\ disk[args[p].name] = 0
        /\ allocated[p].ip \notin usedIp

\* C7: a run that ends with a non-zero exit status has printed exactly one
\* object, the error object.
C7_OneErrorObject ==
    \A p \in Procs :
        (pc[p] = "exited" /\ exit[p] # 0) =>
            (Len(out[p]) = 1 /\ out[p][1].status = "error")

\* C8: no step of a run without --apply changes a directory, a file, a
\* permission, the hypervisor, or issues a gateway call.
C8_DryRunTouchesNothing ==
    [][\A p \in Procs :
         (Running(p) /\ ~args[p].apply /\ pc'[p] # pc[p]) =>
            /\ UNCHANGED <<dirs, template, disk, ciDir, xml, domain, routes>>
            /\ calls[p] = <<>>]_vars

\* C9: a dry run is handed the pool's next free IPv4 address, reports status
\* ok with that address and vmid = name, and keeps what it allocated: at its
\* exit and for as long as its result stands, the address, the IPv6 address
\* and the token id stay allocated, so the pool's next address is another.
DryRunKept(j) ==
    /\ j.status = "ok"
    /\ j.ip \in usedIp
    /\ NextFreeIp # j.ip
    /\ j.ipv6 # 0 => j.ipv6 \in usedIp6
    /\ nft[j.nft_token_id] = "reserved"

C9_DryRunKeepsAllocations ==
    /\ [](\A p \in Procs : (pc[p] = "exited" /\ exit[p] = 0) =>
            (Len(out[p]) = 1 /\ DryRunKept(out[p][1])))
    /\ [][\A p \in Procs :
            /\ (pc[p] = "alloc_ip" /\ pc'[p] = "alloc_ipv6") =>
                  (allocated'[p].ip = NextFreeIp /\ NextFreeIp # 0)
            /\ (pc[p] = "postalloc" /\ ~args[p].apply /\ pc'[p] # "postalloc") =>
                  /\ exit'[p] = 0
                  /\ Len(out'[p]) = 1
                  /\ out'[p][1].vmid = args[p].name
                  /\ out'[p][1].ip = allocated[p].ip
                  /\ out'[p][1].ipv6 = allocated[p].ipv6
                  /\ out'[p][1].nft_token_id = allocated[p].nft_token_id
                  /\ UNCHANGED <<usedIp, usedIp6, nft, records>>]_vars

\* C9 witness: a dry run has reported an address for a name that has no live
\* record, and the address is still allocated.
C9_Witness ==
    \E p \in Procs :
        /\ pc[p] = "exited" /\ exit[p] = 0
        /\ ~Live(out[p][1].vmid)
        /\ out[p][1].ip \in usedIp
        /\ NextFreeIp \notin {0, out[p][1].ip}

\* C10: a name whose overlay file exists, or whose record in the store is
\* not destroyed, never gets past the check: the run ends there with exit
\* status 1 (the error object, unless the store call itself raised), holding
\* no IPv4, IPv6 or token id, with no pool entry, record, per-VM file or
\* domain changed and no gateway call issued.
Rejected(p) ==
    /\ pc'[p] = "exited" /\ exit'[p] = 1
    /\ Len(out'[p]) <= 1
    /\ \A i \in DOMAIN out'[p] : out'[p][i].status = "error"
    /\ allocated[p].ip = 0 /\ allocated[p].ipv6 = 0
    /\ allocated[p].nft_token_id = NoToken
    /\ calls[p] = <<>>
    /\ UNCHANGED <<usedIp, usedIp6, nft, records, disk, ciDir, xml, domain, routes>>

FailedBeforeDisk(p) ==
    \/ pc[p] \in {"config", "prereq", "db", "alloc_ip", "alloc_ipv6",
                  "reserve_nft", "postalloc", "render", "localds"}
    \/ /\ pc[p] = "c_exit"
       /\ msg[p] \in {"Failed to render cloud-init", "cloud-localds not found",
                      "cloud-localds failed"}

C11_RetryAfterFailureIsClean ==
    [][\A p \in Procs :
         (EndsFailed(p) /\ nruns = 1 /\ FailedBeforeDisk(p)) =>
            LET l == allocated[p]
                done == Range(calls[p])
            IN  /\ l.ip # 0 => (l.ip \notin usedIp' \/ "release_ip" \in done)
                /\ l.ipv6 # 0 => (l.ipv6 \notin usedIp6' \/ "release_ipv6" \in done)
                /\ l.nft_token_id # NoToken =>
                      (nft'[l.nft_token_id] # "reserved" \/ "mark_nft_failed" \in done)
                /\ disk'[l.name] = disk[l.name]
                /\ l.cloud_init_dir =>
                      (~ciDir'[l.name].exists \/ "rmtree" \in done)]_vars

\* C12: every create_vm run ends, whatever its external tools do: a started
\* run eventually exits.
C12_RunTerminates ==
    \A p \in Procs : (pc[p] \notin {"idle", "exited"}) ~> (pc[p] = "exited")

\* The identifier grammar: 1 to 64 characters, letters, digits, '.', '_' and
\* '-', the first one a letter or a digit.
GrammarDomain(v) ==
    /\ v.type = "str"
    /\ Len(v.v) \in 1..(DomainQuantMax + 1)
    /\ v.v[1] \in Letters \cup Digits
    /\ \A i \in 1..Len(v.v) : v.v[i] \in NameChars
DomainActions ==
    {"virsh-start", "virsh-destroy", "virsh-shutdown", "virsh-reboot", "virsh-undefine"}

\* C13: a request of an action that takes a domain, whose domain value is
\* outside the identifier grammar, is rejected and no command is run for it.
C13_MalformedDomainRejected ==
    (gwReq.action \in DomainActions /\ ~GrammarDomain(gwReq.params.domain))
        => (gwRan = <<>> /\ ~gwResult.ok)

\* The path with its '..' components resolved against the components before
\* them.
RECURSIVE Normalised(_, _)
Normalised(done, rest) ==
    IF rest = <<>> THEN done
    ELSE IF Head(rest) = ".."
         THEN Normalised(IF done = <<>> THEN done ELSE SubSeq(done, 1, Len(done) - 1),
                         Tail(rest))
         ELSE Normalised(Append(done, Head(rest)), Tail(rest))

\* C14: virsh define is run only for an xml_path that is a non-empty string
\* and, with its '..' components resolved, names an existing file under
\* /var/lib/blockhost/.
C14_DefineOnlyUnderRoot ==
    (gwReq.action = "virsh-define" /\ gwRan # <<>>) =>
        LET v == gwReq.params.xml_path
        IN  /\ v.type = "str" /\ v.v # <<>>
            /\ StartsWithRoot(Normalised(<<>>, v.v))
            /\ Normalised(<<>>, v.v) \in HostFiles

\* C15: the handlers serve exactly the six action names; a request with any
\* other name runs no command and ends in an error; a command that is run is
\* the virsh subcommand of the action requested.
AllowList ==
    {"virsh-start", "virsh-destroy", "virsh-shutdown", "virsh-reboot",
     "virsh-define", "virsh-undefine"}

C16_AlwaysStructuredResult ==
    (gwReq.action \in AllowList) =>
        /\ gwResult.kind = "returned"
        /\ gwRan = <<>> => ~gwResult.ok

\* C17 as stated: no record goes from active to destroyed in one step, and a
\* destroyed record stays destroyed.
C17_DestroyedIsTerminal ==
    [][\A n \in Names :
         /\ records[n].status = "active" => records'[n].status # "destroyed"
         /\ records[n].status = "destroyed" => records'[n].status = "destroyed"]_vars

\* C17 amended: no record goes from active to destroyed in one step, and a
\* destroyed record stays destroyed until a create_vm run for its name
\* registers it again, which makes it active with the run's own address.
C17_DestroyedUntilRecreated ==
    [][\A n \in Names :
         /\ records[n].status = "active" => records'[n].status # "destroyed"
         /\ (records[n].status = "destroyed" /\ records'[n] # records[n]) =>
               \E p \in Procs :
                  /\ pc[p] = "register" /\ args[p].name = n
                  /\ pc'[p] = "exited" /\ exit'[p] = 0
                  /\ records'[n].status = "active"
                  /\ records'[n].ip = allocated[p].ip]_vars

\* C17 witness: a create_vm run for the name of a destroyed record was let
\* through, has started its domain and is at the registration.
C17_Witness ==
    \E p \in Procs :
        /\ pc[p] = "register"
        /\ records[args[p].name].status = "destroyed"
        /\ domain[args[p].name].running

\* What the two phases of gc are to work on.
SuspendCandidates == {n \in Names : records[n].status = "active" /\ records[n].expiry < 0}
GraceOf(a) == IF a.grace_days = NoGraceDays THEN DbGraceDays ELSE a.grace_days
DestroyCandidates(a) ==
    {n \in Names : records[n].status = "suspended" /\ records[n].expiry + GraceOf(a) < 0}
\* a vm-gc invocation ends in this step
GcEnds == gcRun' # gcRun
Issued(c, action, n) == \E i \in DOMAIN c : c[i].action = action /\ c[i].domain = n

\* C18: vm-gc --execute (phase 1 selected) asks the gateway for a graceful
\* shutdown of every active record whose expiry has passed, and the record
\* is suspended if that shutdown succeeded and active otherwise.
C18_GcSuspendsExpired ==
    [][(GcEnds /\ gcRun'.args.execute /\ ~gcRun'.args.destroy_only) =>
         \A n \in SuspendCandidates :
            \E i \in DOMAIN gcRun'.calls :
               /\ gcRun'.calls[i].action = "virsh-shutdown"
               /\ gcRun'.calls[i].domain = n
               /\ records'[n].status =
                     (IF gcRun'.calls[i].ok THEN "suspended" ELSE "active")]_vars

\* C19: vm-gc --execute (phase 2 selected) has every suspended record past
\* its grace period destroyed and undefined through the gateway and sets it
\* to destroyed; a suspended record within its grace period stays suspended.
C19_GcDestroysLapsed ==
    [][(GcEnds /\ gcRun'.args.execute /\ ~gcRun'.args.suspend_only) =>
         \A n \in Names :
            /\ n \in DestroyCandidates(gcRun'.args) =>
                  /\ Issued(gcRun'.calls, "virsh-destroy", n)
                  /\ Issued(gcRun'.calls, "virsh-undefine", n)
                  /\ records'[n].status = "destroyed"
            /\ (records[n].status = "suspended" /\ n \notin DestroyCandidates(gcRun'.args))
                  => records'[n].status = "suspended"]_vars

\* C20: vm-gc without --execute calls no gateway action, changes no record
\* and no domain, and reports how many suspend and destroy candidates the
\* store holds; with --execute, --suspend-only destroys nothing and
\* --destroy-only suspends nothing.
C20_GcDryRunOnlyReports ==
    [][GcEnds =>
         LET a == gcRun'.args
         IN  /\ ~a.execute =>
                   /\ gcRun'.calls = <<>>
                   /\ UNCHANGED <<records, domain, disk>>
                   /\ gcRun'.out.suspend = Cardinality(SuspendCandidates)
                   /\ gcRun'.out.destroy = Cardinality(DestroyCandidates(a))
             /\ (a.execute /\ a.suspend_only) =>
                   \A n \in Names : records[n].status = "suspended"
                                       => records'[n].status = "suspended"
             /\ (a.execute /\ a.destroy_only) =>
                   \A n \in Names : records[n].status = "active"
                                       => records'[n].status = "active"]_vars

\* a vm-resume invocation ends in this step
ResumeEnds == resumeRun' # resumeRun
\* the expiry resume is to leave: extended by --extend-days when it is given
Extended(e, a) == IF a.extend_days = NoExtendDays THEN e ELSE e + a.extend_days

\* C21: vm-resume <name> for a record that is suspended asks the gateway to
\* start the domain, sets the record to active with its expiry extended by
\* --extend-days when that is given, and exits with status 0.
C21_ResumeStartsSuspended ==
    [][(ResumeEnds /\ ~resumeRun'.args.dry_run
               /\ records[resumeRun'.args.name].status = "suspended") =>
         LET n == resumeRun'.args.name
         IN  /\ Issued(resumeRun'.calls, "virsh-start", n)
             /\ records'[n].status = "active"
             /\ records'[n].expiry = Extended(records[n].expiry, resumeRun'.args)
             /\ resumeRun'.exit = 0]_vars

\* C22: vm-resume <name> for a record that is not suspended (active,
\* destroyed, or no record at all) ends with a state-conflict error and a
\* non-zero exit status, has called no gateway action, and leaves every
\* record and every domain as it was.
C22_ResumeRejectsNonSuspended ==
    [][(ResumeEnds /\ records[resumeRun'.args.name].status # "suspended") =>
         /\ resumeRun'.exit # 0
         /\ resumeRun'.err = "state conflict"
         /\ resumeRun'.calls = <<>>
         /\ UNCHANGED <<records, domain>>]_vars

\* C23: pool exhaustion fails closed. A run that comes to the IPv4
\* allocation when the pool has no free address ends there with exit status
\* 1 and nothing allocated; a run that cannot reserve a token id ends with
\* exit status 1 and its addresses back in the pools; a run that meets an
\* exhausted pool (no other run under way) changes no file, directory or
\* domain on its way to that failure; and no run goes on to the creation
\* steps without an IPv4 address and a token id in its ledger.
C23_PoolExhaustionFailsClosed ==
    [][\A p \in Procs :
         /\ (pc[p] = "alloc_ip" /\ pc'[p] # "alloc_ip" /\ NextFreeIp = 0) =>
               /\ pc'[p] = "exited" /\ exit'[p] = 1
               /\ UNCHANGED <<usedIp, usedIp6, nft>>
         /\ (pc[p] = "reserve_nft" /\ pc'[p] \notin {"reserve_nft", "postalloc"}) =>
               /\ pc'[p] = "exited" /\ exit'[p] = 1
               /\ allocated[p].ip \notin usedIp'
               /\ allocated[p].ipv6 # 0 => allocated[p].ipv6 \notin usedIp6'
         /\ (/\ pc[p] \in {"config", "prereq", "db", "alloc_ip"}
             /\ pc'[p] # pc[p]
             /\ NextFreeIp = 0
             /\ \A q \in Procs \ {p} : ~Running(q)) =>
               UNCHANGED <<dirs, template, disk, ciDir, xml, domain, routes>>
         /\ (pc[p] # "postalloc" /\ pc'[p] = "postalloc") =>
               /\ allocated'[p].ip # 0
               /\ allocated'[p].nft_token_id # NoToken]_vars

\* C24: the IPv6 allocation never ends the run. Whatever happens at it (no
\* broker allocation, no address left in the IPv6 pool, the store call
\* failing), the run goes on to the token reservation with its IPv4 address,
\* and with an empty ipv6 in those three cases; a run without an IPv6
\* address skips the route and, when it registers, ends with exit status 0
\* and the record active with the run's IPv4 address and no IPv6 address.
C24_Ipv6IsNonFatal ==
    [][\A p \in Procs :
         /\ (pc[p] = "alloc_ipv6" /\ pc'[p] # "alloc_ipv6") =>
               /\ pc'[p] = "reserve_nft"
               /\ allocated'[p].ip = allocated[p].ip
               /\ (~broker \/ NextFreeIp6 = 0) => allocated'[p].ipv6 = 0
               /\ allocated'[p].ipv6 # 0 => allocated'[p].ipv6 \in usedIp6'
         /\ (pc[p] = "unlink_xml" /\ allocated[p].ipv6 = 0
                /\ pc'[p] \notin {"unlink_xml", "exited"}) => pc'[p] = "register"
         /\ (pc[p] = "register" /\ allocated[p].ipv6 = 0
                /\ pc'[p] = "exited" /\ exit'[p] = 0) =>
               /\ records'[args[p].name].status = "active"
               /\ records'[args[p].name].ip = allocated[p].ip
               /\ records'[args[p].name].ipv6 = 0]_vars

\* C25: the ledger is complete. Whatever a run in progress has put on the
\* filesystem or the hypervisor (overlay file, files of the cloud-init
\* directory, defined domain) is recorded in its ledger, whether the run is
\* still in main or already in _cleanup_partial; and when _cleanup_partial
\* has returned, the descriptor file the run wrote is gone.
C25_LedgerComplete ==
    \A p \in Procs : Running(p) =>
        LET n == args[p].name
            l == allocated[p]
        IN  /\ disk[n] = id[p] => l.disk_path
            /\ domain[n].defined = id[p] => l.domain_defined
            /\ (ciDir[n].user_data = id[p] \/ ciDir[n].iso = id[p]) => l.cloud_init_dir
            /\ pc[p] = "c_exit" => xml[n] # id[p]

\* the labels of _cleanup_partial and of the return to fail()
CleanupLabels == Range(CleanupOrder) \cup {"c_exit"}
\* c holds op1 at some place and op2 at a later one
Before(c, op1, op2) == \E i, j \in DOMAIN c : i < j /\ c[i] = op1 /\ c[j] = op2

\* C26: a record becomes active only by the registration step of a run for
\* its name that has called virsh-define and then virsh-start, both answered
\* ok (the domain is defined by this run and running); a run comes to the
\* registration only from a started domain; after a failed define or start
\* it goes to compensation without touching the records; a failing
\* registration changes no record and goes to the teardown of the domain,
\* and destroy and undefine have been issued when compensation returns.
C26_ActiveOnlyAfterStart ==
    [][/\ \A n \in Names :
            (records'[n] # records[n] /\ records'[n].status = "active") =>
               \E p \in Procs :
                  /\ pc[p] = "register" /\ args[p].name = n
                  /\ pc'[p] = "exited" /\ exit'[p] = 0
                  /\ Before(calls[p], "virsh-define", "virsh-start")
                  /\ allocated[p].domain_defined
                  /\ domain[n].defined = id[p] /\ domain[n].running
       /\ \A p \in Procs :
            /\ (pc[p] # "register" /\ pc'[p] = "register") =>
                  /\ Before(calls'[p], "virsh-define", "virsh-start")
                  /\ domain'[args[p].name].defined = id[p]
                  /\ domain'[args[p].name].running
            /\ (pc[p] \in {"define", "start"}
                   /\ pc'[p] \notin {"define", "start", "unlink_xml"}) =>
                  /\ pc'[p] \in CleanupLabels
                  /\ records' = records
            /\ (pc[p] = "register" /\ pc'[p] \notin {"register", "exited"}) =>
                  /\ pc'[p] = "c_destroy"
                  /\ records' = records
            /\ (pc[p] = "c_exit" /\ pc'[p] # "c_exit"
                   /\ msg[p] = "Database registration failed") =>
                  /\ Before(calls[p], "virsh-destroy", "virsh-undefine")
                  /\ records' = records]_vars

\* C26 witness: a run has defined and started its domain and registered the
\* VM: the record is active with the address the run reported.
C26_Witness ==
    \E p \in Procs :
        /\ pc[p] = "exited" /\ exit[p] = 0
        /\ records[out[p][1].vmid].status = "active"
        /\ records[out[p][1].vmid].ip = out[p][1].ip
        /\ domain[out[p][1].vmid].defined > 0
        /\ domain[out[p][1].vmid].running

\* C27: whatever token id the store handed out, 0 included, a run that
\* fails through fail() after the reservation has issued mark_nft_failed by
\* the time _cleanup_partial returns, and a token id is only ever marked
\* failed by the run whose ledger holds it.
C27_ReservedTokenMarkedFailed ==
    [][/\ \A p \in Procs :
            (pc[p] = "c_exit" /\ pc'[p] # "c_exit"
                /\ allocated[p].nft_token_id \in TokenIds) =>
               Count(calls[p], "mark_nft_failed") = 1
       /\ \A t \in TokenIds :
            (nft[t] # "failed" /\ nft'[t] = "failed") =>
               \E p \in Procs : pc[p] = "c_nft" /\ allocated[p].nft_token_id = t]_vars

\* The request has passed the validation of its handler.
PassesValidation ==
    \/ /\ gwReq.action \in DomainActions
       /\ DomainAccepted(gwReq.params.domain)
    \/ /\ gwReq.action = "virsh-define"
       /\ gwReq.params.xml_path.type = "str"
       /\ StartsWithRoot(gwReq.params.xml_path.v)
       /\ IsFile(gwReq.params.xml_path.v)
\* the parameter the command is about
Subject == IF gwReq.action = "virsh-define" THEN gwReq.params.xml_path.v
           ELSE gwReq.params.domain.v

\* C28: for a request that passes validation the handler runs exactly one
\* command, the virsh subcommand of the action on the validated parameter,
\* with --remove-all-storage if and only if the action is virsh-undefine and
\* remove_storage is true, and returns ok = true if and only if the command
\* exited with status 0, an error text otherwise.
C28_OneCommandStatusReported ==
    PassesValidation =>
        /\ Len(gwRan) = 1
        /\ gwReq.action = "virsh-" \o gwRan[1].sub
        /\ gwRan[1].arg = Subject
        /\ gwRan[1].flags =
              (IF gwReq.action = "virsh-undefine" /\ gwReq.params.remove_storage = True
               THEN <<"--remove-all-storage">> ELSE <<>>)
        /\ gwResult.kind = "returned"
        /\ gwResult.ok <=> gwRan[1].rc = 0
        /\ ~gwResult.ok => gwResult.error # ""

====
